---- MODULE Spec2Model ----
(***************************************************************************)
(* docs/serve.py: a development HTTP server.  WASMHandler subclasses       *)
(* http.server.SimpleHTTPRequestHandler, overrides end_headers to add a    *)
(* CORS header and installs a '.wasm' MIME type; the module then binds a   *)
(* socketserver.TCPServer on port 8080, prints one line and serves         *)
(* forever.  The behaviour serve.py inherits from CPython's http.server,   *)
(* socketserver and posixpath (3.11) is modelled at the statement of       *)
(* serve.py that pulls it in.                                              *)
(***************************************************************************)
EXTENDS Integers, Sequences, FiniteSets, TLC

VARIABLES
    pc,              \* position of the module-level code of serve.py
    extensions_map,  \* SimpleHTTPRequestHandler.extensions_map (class attribute)
    types_map,       \* the platform's mimetypes table (fixed per installation)
    port_in_use,     \* whether another socket already holds port 8080
    stdout,          \* lines printed by the process
    stderr,          \* what the process reported: "Traceback" once one was printed
    exit,            \* exit status (-1 while running), the uncaught exception, where
    fs,              \* the filesystem: absolute path -> entry
    backlog,         \* kernel accept queue of the listening socket
    st,              \* per connection: none, queued, reading, responded, closed
    hd               \* per connection: the request handler object

vars == <<pc, extensions_map, types_map, port_in_use, stdout, stderr, exit, fs,
          backlog, st, hd>>

(***************************************************************************)
(* Bounds of the model.                                                    *)
(***************************************************************************)
MaxConns == 2
MaxSegs == 2

PORT == 8080

Conns == 1..MaxConns

(***************************************************************************)
(* The filesystem.  The process's working directory is /srv; /s.txt lies   *)
(* outside it.  /srv/d has an index.html, /srv itself has none; f.wasm may *)
(* be unreadable and /srv/s.txt may be missing.                            *)
(***************************************************************************)
directory == <<"srv">>

NoEntry == [kind |-> "none", readable |-> FALSE, data |-> "none"]
DirEntry == [kind |-> "dir", readable |-> TRUE, data |-> "none"]
FileEntry(d, r) == [kind |-> "file", readable |-> r, data |-> d]

FsPaths ==
    { <<"srv">>, <<"srv", "d">>, <<"srv", "d", "index.html">>,
      <<"srv", "f.wasm">>, <<"srv", "s.txt">>, <<"s.txt">> }

FsStates ==
    { [p \in FsPaths |->
         CASE p = <<"srv">> -> DirEntry
           [] p = <<"srv", "d">> -> DirEntry
           [] p = <<"srv", "d", "index.html">> -> FileEntry("index", TRUE)
           [] p = <<"srv", "f.wasm">> -> w
           [] p = <<"srv", "s.txt">> -> s
           [] OTHER -> FileEntry("secret", TRUE)] :
        w \in {FileEntry("wasm", TRUE), FileEntry("wasm", FALSE)},
        s \in {NoEntry, FileEntry("inroot", TRUE)} }

\* The kernel's path walk: ".." steps to the parent, and stays at "/" there.
RECURSIVE walk(_, _)
walk(at, comps) ==
    IF comps = <<>> THEN at
    ELSE IF Head(comps) = ".."
        THEN walk(IF at = <<>> THEN at ELSE SubSeq(at, 1, Len(at) - 1), Tail(comps))
    ELSE walk(Append(at, Head(comps)), Tail(comps))

Lookup(f, p) == IF walk(<<>>, p) \in DOMAIN f THEN f[walk(<<>>, p)] ELSE NoEntry

\* A decoded name that holds a NUL byte: the os functions raise ValueError on it.
NulName == "x<NUL>"
HasNul(p) == \E i \in 1..Len(p) : p[i] = NulName

isdir(f, p) == ~HasNul(p) /\ Lookup(f, p).kind = "dir"
isfile(f, p) == ~HasNul(p) /\ Lookup(f, p).kind = "file"
\* open(path, 'rb') succeeds
CanOpen(f, p) == Lookup(f, p).kind = "file" /\ Lookup(f, p).readable

(***************************************************************************)
(* Requests.  A target is the request line's second word, split at '/':    *)
(* abs says it starts with '/', slash that it ends with one.  version ""   *)
(* is a two-word request line (an HTTP/0.9 simple request).                *)
(***************************************************************************)
Segs == {"..", "%2e%2e", "d", "f.wasm", "s.txt", "x%00"}
SegSeqs == UNION { [1..n -> Segs] : n \in 0..MaxSegs }
Targets ==
    { t \in [abs : BOOLEAN, segs : SegSeqs, slash : BOOLEAN] :
        t.segs = <<>> => (t.abs /\ ~t.slash) }
Commands == {"GET", "HEAD", "POST"}
Versions == {"", "HTTP/1.1", "FOO/1.1"}
\* "If-Modified-Since": the header, with a date not before the file's mtime
HeaderSets == {"none", "If-Modified-Since"}
Requests ==
    [command : Commands, target : Targets, version : Versions, headers : HeaderSets]

(***************************************************************************)
(* urllib.parse.unquote, posixpath.normpath and translate_path.            *)
(***************************************************************************)
unquote(seg) ==
    CASE seg = "%2e%2e" -> ".."
      [] seg = "x%00" -> NulName
      [] OTHER -> seg

RECURSIVE normcomps(_, _, _)
normcomps(initial_slashes, comps, new_comps) ==
    IF comps = <<>> THEN new_comps
    ELSE LET comp == Head(comps)
             rest == Tail(comps)
         IN  IF comp \in {"", "."}
                THEN normcomps(initial_slashes, rest, new_comps)
             ELSE IF \/ comp # ".."
                     \/ (~initial_slashes /\ new_comps = <<>>)
                     \/ (new_comps # <<>> /\ new_comps[Len(new_comps)] = "..")
                THEN normcomps(initial_slashes, rest, Append(new_comps, comp))
             ELSE IF new_comps # <<>>
                THEN normcomps(initial_slashes, rest,
                               SubSeq(new_comps, 1, Len(new_comps) - 1))
             ELSE normcomps(initial_slashes, rest, new_comps)

normpath(t) == normcomps(t.abs, [i \in 1..Len(t.segs) |-> unquote(t.segs[i])], <<>>)

\* mutant: the '.' and '..' words are joined like any other
RECURSIVE joinwords_NoFilter(_, _)
joinwords_NoFilter(path, words) ==
    IF words = <<>> THEN path
    ELSE joinwords_NoFilter(Append(path, Head(words)), Tail(words))

RECURSIVE joinwords(_, _)
joinwords(path, words) ==
    IF words = <<>> THEN path
    ELSE IF Head(words) \in {".", ".."}
        THEN joinwords(path, Tail(words))
    ELSE joinwords(Append(path, Head(words)), Tail(words))

\* path.rstrip().endswith('/'): the target "/" has no segments
trailing_slash(t) == t.slash \/ t.segs = <<>>

translate_path(t) ==
    [path |-> joinwords(directory, normpath(t)), slash |-> trailing_slash(t)]

(***************************************************************************)
(* guess_type: extensions_map first, then the platform's mimetypes table.  *)
(***************************************************************************)
splitext(name) ==
    CASE name = "f.wasm" -> ".wasm"
      [] name = "s.txt" -> ".txt"
      [] name = "index.html" -> ".html"
      [] OTHER -> ""

guess_type(path, emap, tmap) ==
    LET ext == splitext(path[Len(path)])
    IN  IF ext \in DOMAIN emap THEN emap[ext]
        ELSE IF ext \in DOMAIN tmap THEN tmap[ext]
        ELSE "application/octet-stream"

(***************************************************************************)
(* The request handler object (one per accepted connection).               *)
(*   code           the status passed to send_response (0: none yet)       *)
(*   buffer_status, buffer   the status line and headers in _headers_buffer*)
(*   wire_status, wire, head_done   the header block written to the socket *)
(*   body           the body written to the socket ("": none)              *)
(*   opened         the filesystem path whose content was opened (<<>>)    *)
(*   raised         the exception that left handle() ("none")              *)
(***************************************************************************)
NoTarget == [abs |-> TRUE, segs |-> <<>>, slash |-> FALSE]
NoRequest == [command |-> "", target |-> NoTarget, version |-> "", headers |-> "none"]

NewHandler ==
    [ requestline |-> NoRequest, request_version |-> "", command |-> "",
      path |-> NoTarget, headers |-> "none", parsed |-> FALSE,
      code |-> 0, buffer_status |-> 0, buffer |-> {},
      wire_status |-> 0, wire |-> {}, head_done |-> FALSE,
      f |-> "", body |-> "", opened |-> <<>>, raised |-> "none" ]

send_response_only(h, code) ==
    IF h.request_version # "HTTP/0.9"
        THEN [h EXCEPT !.buffer_status = code]
        ELSE h

send_header(h, keyword, value) ==
    IF h.request_version # "HTTP/0.9"
        THEN [h EXCEPT !.buffer = @ \cup {<<keyword, value>>}]
        ELSE h

send_response(h, code) ==
    send_header(
        send_header(send_response_only([h EXCEPT !.code = code], code),
                    "Server", "SimpleHTTP/0.6"),
        "Date", "now")

\* BaseHTTPRequestHandler.end_headers, reached through super()
base_end_headers(h) ==
    IF h.request_version # "HTTP/0.9"
        THEN [h EXCEPT !.wire_status = h.buffer_status, !.wire = h.buffer,
                       !.head_done = TRUE, !.buffer_status = 0, !.buffer = {}]
        ELSE h

\* mutant: the override forgets the CORS header
end_headers_NoCors(h) == base_end_headers(h)

\* WASMHandler.end_headers
end_headers(h) ==
    base_end_headers(send_header(h, "Access-Control-Allow-Origin", "*"))

send_error(h, code) ==
    LET h1 == send_header(send_response(h, code), "Connection", "close")
        hasbody == code >= 200 /\ code \notin {204, 205, 304}
        h2 == IF hasbody
                THEN send_header(
                        send_header(h1, "Content-Type", "text/html;charset=utf-8"),
                        "Content-Length", "len")
                ELSE h1
        h3 == end_headers(h2)
    IN  IF h.command # "HEAD" /\ hasbody
            THEN [h3 EXCEPT !.body = "error-page"]
            ELSE h3

parse_request(req) ==
    LET h0 == [NewHandler EXCEPT !.requestline = req, !.command = "None",
                                 !.request_version = "HTTP/0.9"]
    IN  IF req.version # "" /\ req.version # "HTTP/1.1"
            THEN send_error(h0, 400)
        ELSE LET h1 == IF req.version = ""
                          THEN h0
                          ELSE [h0 EXCEPT !.request_version = req.version]
             IN  IF req.version = "" /\ req.command # "GET"
                    THEN send_error(h1, 400)
                 ELSE [h1 EXCEPT !.command = req.command, !.path = req.target,
                                 !.headers = req.headers, !.parsed = TRUE]

list_directory(h, path) ==
    LET h1 == send_header(
                  send_header(send_response(h, 200),
                              "Content-type", "text/html; charset=utf-8"),
                  "Content-Length", "len")
    IN  [end_headers(h1) EXCEPT !.f = "listing", !.opened = path]

\* send_head from "ctype = self.guess_type(path)" on
send_file(h, path, slash) ==
    LET ctype == guess_type(path, extensions_map, types_map)
    IN  IF slash THEN send_error(h, 404)
        ELSE IF HasNul(path) THEN [h EXCEPT !.raised = "ValueError"]
        ELSE IF ~CanOpen(fs, path) THEN send_error(h, 404)
        ELSE IF h.headers = "If-Modified-Since"
            THEN end_headers(send_response(h, 304))
        ELSE LET h1 == send_header(
                         send_header(
                            send_header(send_response(h, 200),
                                        "Content-type", ctype),
                            "Content-Length", "len"),
                         "Last-Modified", "mtime")
             IN  [end_headers(h1) EXCEPT !.f = Lookup(fs, path).data,
                                         !.opened = path]

send_head(h) ==
    LET tp == translate_path(h.path)
    IN  IF isdir(fs, tp.path)
            THEN IF ~trailing_slash(h.path)
                    THEN end_headers(
                            send_header(
                               send_header(send_response(h, 301),
                                           "Location", "path/"),
                               "Content-Length", "0"))
                 ELSE IF isfile(fs, Append(tp.path, "index.html"))
                    THEN send_file(h, Append(tp.path, "index.html"), FALSE)
                 ELSE IF isfile(fs, Append(tp.path, "index.htm"))
                    THEN send_file(h, Append(tp.path, "index.htm"), FALSE)
                 ELSE list_directory(h, tp.path)
            ELSE send_file(h, tp.path, tp.slash)

\* mutant: the file is never copied to the socket
do_GET_NoBody(h) == send_head(h)

do_GET(h) ==
    LET r == send_head(h)
    IN  IF r.f # "" THEN [r EXCEPT !.body = r.f] ELSE r

do_HEAD(h) == send_head(h)

\* mutant: every method is dispatched
HasMethod_Any(command) == TRUE

\* hasattr(self, 'do_' + self.command)
HasMethod(command) == command \in {"GET", "HEAD"}

handle_one_request(req) ==
    LET h == parse_request(req)
    IN  IF ~h.parsed THEN h
        ELSE IF ~HasMethod(h.command) THEN send_error(h, 501)
        ELSE IF h.command = "GET" THEN do_GET(h)
        ELSE do_HEAD(h)

(***************************************************************************)
(* The process: the module-level statements of serve.py.                   *)
(*   pc = "install"  about to run  WASMHandler.extensions_map['.wasm'] = . *)
(*   pc = "bind"     about to run  socketserver.TCPServer(("", PORT), ...) *)
(*   pc = "print"    bound and listening, about to print                   *)
(*   pc = "serve"    inside httpd.serve_forever()                          *)
(*   pc = "exited"   the process has ended                                 *)
(***************************************************************************)
DefaultExtensionsMap ==
    [e \in {".gz", ".Z", ".bz2", ".xz"} |->
        CASE e = ".gz" -> "application/gzip"
          [] e = ".Z" -> "application/octet-stream"
          [] e = ".bz2" -> "application/x-bzip2"
          [] OTHER -> "application/x-xz"]

\* mimetypes.types_map: '.wasm' is there from Python 3.8 on
TypesMaps ==
    { [e \in {".txt", ".html"} \cup w |->
        CASE e = ".txt" -> "text/plain"
          [] e = ".html" -> "text/html"
          [] OTHER -> "application/wasm"] : w \in {{}, {".wasm"}} }

Running == [code |-> -1, cause |-> "none", at |-> "none"]

Init ==
    /\ pc = "install"
    /\ extensions_map = DefaultExtensionsMap
    /\ types_map \in TypesMaps
    /\ port_in_use \in BOOLEAN
    /\ stdout = <<>>
    /\ stderr = {}
    /\ exit = Running
    /\ fs \in FsStates
    /\ backlog = <<>>
    /\ st = [c \in Conns |-> "none"]
    /\ hd = [c \in Conns |-> NewHandler]

\* mutant: the interrupt is swallowed and the process exits cleanly
UncaughtExit_Clean(exc) == IF exc = "KeyboardInterrupt" THEN 0 ELSE 1

\* The exit status of an exception nobody catches: serve.py has no try/except.
\* Python dies of SIGINT on an uncaught KeyboardInterrupt (128 + 2 to a shell).
UncaughtExit(exc) == IF exc = "KeyboardInterrupt" THEN 130 ELSE 1

\* mutant: the serving loop catches nothing
Caught_None(exc) == FALSE

\* socketserver._handle_request_noblock: "except Exception" around process_request
Caught(exc) == exc # "KeyboardInterrupt"

\* mutant: the bind succeeds on a held port
server_bind_Reuse(inuse) == TRUE

\* TCPServer.server_bind: allow_reuse_address is False, bind fails on a held port
server_bind(inuse) == ~inuse

\* mutant: a threading server, the loop accepts while handlers run
MayAccept_Threading(s) == TRUE

\* TCPServer.process_request runs the handler in the serving thread: the loop
\* reaches get_request again only when no handler is running
MayAccept(s) == \A c \in Conns : s[c] \notin {"reading", "responded"}

\* mutant: the mapping is never installed
install_wasm_Noop(emap) == emap

install_wasm(emap) ==
    [e \in DOMAIN emap \cup {".wasm"} |->
        IF e = ".wasm" THEN "application/wasm" ELSE emap[e]]

InstallWasmType ==
    /\ pc = "install"
    /\ extensions_map' = install_wasm(extensions_map)
    /\ pc' = "bind"
    /\ UNCHANGED <<types_map, port_in_use, stdout, stderr, exit, fs, backlog, st, hd>>

\* An exception nobody catches ends the process: its handler objects and
\* accepted sockets are gone, a traceback is printed.
Die(exc) ==
    /\ pc' = "exited"
    /\ exit' = [code |-> UncaughtExit(exc), cause |-> exc, at |-> pc]
    /\ stderr' = stderr \cup {"Traceback"}
    /\ st' = [c \in Conns |->
                IF st[c] \in {"reading", "responded"} THEN "closed" ELSE st[c]]
    /\ hd' = [c \in Conns |-> NewHandler]

Bind ==
    /\ pc = "bind"
    /\ IF server_bind(port_in_use)
          THEN pc' = "print" /\ UNCHANGED <<exit, stderr, st, hd>>
          ELSE Die("OSError")
    /\ UNCHANGED <<extensions_map, types_map, port_in_use, stdout, fs, backlog>>

\* print(f"Serving at http://localhost:{PORT}")
ServingLine == [text |-> "Serving at http://localhost:", port |-> PORT]

PrintServing ==
    /\ pc = "print"
    /\ stdout' = Append(stdout, ServingLine)
    /\ pc' = "serve"
    /\ UNCHANGED <<extensions_map, types_map, port_in_use, stderr, exit, fs,
                   backlog, st, hd>>

\* a client completes a TCP handshake with the listening socket; connections
\* are numbered in the order they arrive
ClientConnect(c) ==
    /\ pc \in {"print", "serve"}
    /\ st[c] = "none"
    /\ \A d \in 1..(c - 1) : st[d] # "none"
    /\ backlog' = Append(backlog, c)
    /\ st' = [st EXCEPT ![c] = "queued"]
    /\ UNCHANGED <<pc, extensions_map, types_map, port_in_use, stdout, stderr, exit, fs, hd>>

\* serve_forever: get_request, then the handler blocks in rfile.readline
Accept(c) ==
    /\ pc = "serve"
    /\ backlog # <<>>
    /\ c = Head(backlog)
    /\ MayAccept(st)
    /\ backlog' = Tail(backlog)
    /\ st' = [st EXCEPT ![c] = "reading"]
    /\ hd' = [hd EXCEPT ![c] = NewHandler]
    /\ UNCHANGED <<pc, extensions_map, types_map, port_in_use, stdout, stderr, exit, fs>>

\* the request arrives: finish_request runs the handler to its end
HandleRequest(c) ==
    /\ pc = "serve"
    /\ st[c] = "reading"
    /\ \E req \in Requests : hd' = [hd EXCEPT ![c] = handle_one_request(req)]
    /\ st' = [st EXCEPT ![c] = "responded"]
    /\ UNCHANGED <<pc, extensions_map, types_map, port_in_use, stdout, stderr, exit, fs,
                   backlog>>

\* the client closes (readline returns b'') or resets the connection
ClientHangsUp(c) ==
    /\ pc = "serve"
    /\ st[c] = "reading"
    /\ \E exc \in {"none", "ConnectionResetError"} :
          hd' = [hd EXCEPT ![c] = [NewHandler EXCEPT !.raised = exc]]
    /\ st' = [st EXCEPT ![c] = "responded"]
    /\ UNCHANGED <<pc, extensions_map, types_map, port_in_use, stdout, stderr, exit, fs,
                   backlog>>

\* handle_error (a traceback) for a caught exception, then shutdown_request
ShutdownRequest(c) ==
    /\ pc = "serve"
    /\ st[c] = "responded"
    /\ IF hd[c].raised # "none" /\ ~Caught(hd[c].raised)
          THEN Die(hd[c].raised)
          ELSE /\ st' = [st EXCEPT ![c] = "closed"]
               /\ hd' = [hd EXCEPT ![c] = NewHandler]
               /\ stderr' = IF hd[c].raised # "none"
                               THEN stderr \cup {"Traceback"}
                               ELSE stderr
               /\ UNCHANGED <<pc, exit>>
    /\ UNCHANGED <<extensions_map, types_map, port_in_use, stdout, fs, backlog>>

\* SIGINT: KeyboardInterrupt is raised in the main thread and nothing catches it
Interrupt ==
    /\ pc # "exited"
    /\ Die("KeyboardInterrupt")
    /\ UNCHANGED <<extensions_map, types_map, port_in_use, stdout, fs, backlog>>

\* Another process changes the served tree (between two requests: a handler
\* runs to its end in one step).
ExternalChange ==
    /\ pc # "exited"
    /\ \A c \in Conns : st[c] # "responded"
    /\ fs' \in FsStates \ {fs}
    /\ UNCHANGED <<pc, extensions_map, types_map, port_in_use, stdout, stderr,
                   exit, backlog, st, hd>>

Next ==
    \/ InstallWasmType
    \/ Bind
    \/ PrintServing
    \/ \E c \in Conns : ClientConnect(c)
    \/ \E c \in Conns : Accept(c)
    \/ \E c \in Conns : HandleRequest(c)
    \/ \E c \in Conns : ClientHangsUp(c)
    \/ \E c \in Conns : ShutdownRequest(c)
    \/ Interrupt
    \/ ExternalChange

Spec == Init /\ [][Next]_vars

(***************************************************************************)
(* Vocabulary of the properties.                                           *)
(***************************************************************************)
CORS == <<"Access-Control-Allow-Origin", "*">>
WasmType == <<"Content-type", "application/wasm">>

Responded(c) == st[c] = "responded"
Active == {c \in Conns : st[c] \in {"reading", "responded"}}

IsUnder(root, p) == Len(p) >= Len(root) /\ SubSeq(p, 1, Len(root)) = root

\* where the kernel would land on directory + "/" + target, ".." obeyed
OutsideName(t) == walk(directory, [i \in 1..Len(t.segs) |-> unquote(t.segs[i])])
Escapes(t) == ~IsUnder(directory, OutsideName(t))

\* the target is the relative path of p, a path under the root directory
NamesPath(t, p) ==
    /\ IsUnder(directory, p)
    /\ t.segs = SubSeq(p, Len(directory) + 1, Len(p))
    /\ ~t.slash

Translated(h) == translate_path(h.path).path

\* bytes reached the client: a header block or a body
ResponseSent(h) == h.head_done \/ h.body # ""

(***************************************************************************)
(* C1 (as stated): every response sent, whatever the request and outcome,  *)
(* carries Access-Control-Allow-Origin: *.                                 *)
(***************************************************************************)
C1_EveryResponseHasCors ==
    \A c \in Conns :
        (Responded(c) /\ ResponseSent(hd[c])) => CORS \in hd[c].wire

(***************************************************************************)
(* C1 (amended): every response that has a header block carries the CORS   *)
(* header, and a request line with a valid HTTP/1.x version always gets a  *)
(* header block; a response in HTTP/0.9 form (to a two-word request line,  *)
(* or the 400 for an unparsable version) has no status line and no headers.*)
(***************************************************************************)
C1_HeaderBlocksHaveCors ==
    \A c \in Conns :
        Responded(c) =>
            /\ hd[c].head_done => CORS \in hd[c].wire
            /\ (hd[c].code # 0 /\ hd[c].request_version # "HTTP/0.9")
                   => (hd[c].head_done /\ CORS \in hd[c].wire)
            /\ hd[c].request_version = "HTTP/0.9"
                   => (~hd[c].head_done /\ hd[c].wire = {})

C1_Witness ==
    \E c \in Conns :
        /\ Responded(c)
        /\ hd[c].wire_status = 404
        /\ hd[c].head_done
        /\ CORS \in hd[c].wire

(***************************************************************************)
(* C2 (as stated): a GET for an existing regular file with extension .wasm *)
(* is answered with Content-Type application/wasm, and the mapping is in   *)
(* place from before the bind.                                             *)
(***************************************************************************)
C2_WasmAlwaysTyped ==
    /\ pc \in {"bind", "print", "serve"} =>
          (".wasm" \in DOMAIN extensions_map
              /\ extensions_map[".wasm"] = "application/wasm")
    /\ \A c \in Conns :
          ( /\ Responded(c)
            /\ hd[c].parsed
            /\ hd[c].command = "GET"
            /\ NamesPath(hd[c].path, <<"srv", "f.wasm">>)
            /\ Lookup(fs, <<"srv", "f.wasm">>).kind = "file" )
          => WasmType \in hd[c].wire

(***************************************************************************)
(* C2 (amended): the '.wasm' mapping is installed before the socket is     *)
(* bound and never changes; a GET with an HTTP/1.x request line and no     *)
(* If-Modified-Since header for an existing readable .wasm file is         *)
(* answered 200 with Content-type application/wasm and no other content    *)
(* type, and so is every 200 response for a file named *.wasm.             *)
(***************************************************************************)
C2_ReadableWasmTyped ==
    /\ pc \in {"bind", "print", "serve"} =>
          (".wasm" \in DOMAIN extensions_map
              /\ extensions_map[".wasm"] = "application/wasm")
    /\ \A c \in Conns :
          Responded(c) =>
            /\ ( /\ hd[c].parsed
                 /\ hd[c].command = "GET"
                 /\ hd[c].request_version # "HTTP/0.9"
                 /\ hd[c].headers = "none"
                 /\ NamesPath(hd[c].path, <<"srv", "f.wasm">>)
                 /\ CanOpen(fs, <<"srv", "f.wasm">>) )
               => (hd[c].wire_status = 200 /\ WasmType \in hd[c].wire)
            /\ ( /\ hd[c].wire_status = 200
                 /\ hd[c].opened # <<>>
                 /\ splitext(hd[c].opened[Len(hd[c].opened)]) = ".wasm" )
               => \A kv \in hd[c].wire : kv[1] = "Content-type" => kv = WasmType

C2_Witness ==
    \E c \in Conns :
        /\ Responded(c)
        /\ hd[c].command = "GET"
        /\ hd[c].wire_status = 200
        /\ hd[c].opened = <<"srv", "f.wasm">>
        /\ WasmType \in hd[c].wire
        /\ ".wasm" \notin DOMAIN types_map

(***************************************************************************)
(* C3 (as stated): a GET for the relative path of any existing file under  *)
(* the root returns 200 with the file's bytes as body.                     *)
(***************************************************************************)
C3_ExistingFileServed ==
    \A c \in Conns : \A p \in FsPaths :
        ( /\ Responded(c)
          /\ hd[c].parsed
          /\ hd[c].command = "GET"
          /\ NamesPath(hd[c].path, p)
          /\ Lookup(fs, p).kind = "file" )
        => (hd[c].code = 200 /\ hd[c].body = Lookup(fs, p).data)

(***************************************************************************)
(* C3 (amended): a GET without If-Modified-Since for the relative path of  *)
(* an existing file the process can open for reading returns 200 with the  *)
(* file's bytes as body (status line and headers only when the request     *)
(* line carries an HTTP/1.x version).                                      *)
(***************************************************************************)
C3_ReadableFileServed ==
    \A c \in Conns : \A p \in FsPaths :
        ( /\ Responded(c)
          /\ hd[c].parsed
          /\ hd[c].command = "GET"
          /\ hd[c].headers = "none"
          /\ NamesPath(hd[c].path, p)
          /\ CanOpen(fs, p) )
        => /\ hd[c].code = 200
           /\ hd[c].body = Lookup(fs, p).data
           /\ hd[c].opened = p
           /\ hd[c].request_version # "HTTP/0.9" => hd[c].wire_status = 200

C3_Witness ==
    \E c \in Conns :
        /\ Responded(c)
        /\ hd[c].command = "GET"
        /\ NamesPath(hd[c].path, <<"srv", "s.txt">>)
        /\ hd[c].wire_status = 200
        /\ hd[c].body = "inroot"

(***************************************************************************)
(* C4: a GET whose path resolves to no existing entry under the root is    *)
(* answered 404 with an error body, never 200.                             *)
(***************************************************************************)
C4_MissingIs404 ==
    \A c \in Conns :
        ( /\ Responded(c)
          /\ hd[c].parsed
          /\ hd[c].command = "GET"
          /\ Lookup(fs, Translated(hd[c])).kind = "none" )
        => (hd[c].code = 404 /\ hd[c].body = "error-page")

C6_BindFailureIsFatal ==
    /\ port_in_use =>
          /\ stdout = <<>>
          /\ pc \in {"install", "bind", "exited"}
          /\ \A c \in Conns : st[c] = "none"
          /\ pc = "exited" => exit.code # 0
          /\ exit.cause = "OSError" => (exit.code = 1 /\ exit.at = "bind")
    /\ stdout # <<>> =>
          (stdout = <<ServingLine>> /\ ~port_in_use /\ pc \in {"serve", "exited"})
    /\ \A c \in Conns : st[c] \in {"reading", "responded", "closed"} => stdout # <<>>

C6_Witness ==
    /\ port_in_use
    /\ pc = "exited"
    /\ exit.cause = "OSError"
    /\ exit.code = 1
    /\ stdout = <<>>

(***************************************************************************)
(* C7: no outcome of a request ends the accept loop: a step taken inside   *)
(* serve_forever leaves the process inside it unless it is the external    *)
(* interrupt, and a waiting connection can be accepted whenever no handler *)
(* is running.                                                             *)
(***************************************************************************)
C7_RequestErrorsConfined ==
    /\ [](( pc = "serve" /\ backlog # <<>> /\ Active = {} )
             => ENABLED Accept(Head(backlog)))
    /\ [][ (pc = "serve" /\ exit'.cause # "KeyboardInterrupt") => pc' = "serve" ]_vars

C7_Witness ==
    /\ pc = "serve"
    /\ "Traceback" \in stderr
    /\ \E c \in Conns :
          /\ Responded(c)
          /\ hd[c].wire_status = 200
          /\ hd[c].body = "wasm"

(***************************************************************************)
(* C8 (as stated): the exit status is 0 after an interrupt in the accept   *)
(* loop and non-zero after a bind failure; nothing else ends the process.  *)
(***************************************************************************)
C8_InterruptExitsZero ==
    pc = "exited" =>
        /\ (exit.cause = "KeyboardInterrupt" /\ exit.at = "serve") => exit.code = 0
        /\ exit.cause = "OSError" => exit.code # 0
        /\ exit.cause \in {"KeyboardInterrupt", "OSError"}

(***************************************************************************)
(* C8 (amended): the exit status is non-zero both after an interrupt (the  *)
(* KeyboardInterrupt is not caught) and after a bind failure; the accept   *)
(* loop never returns on its own: once bound, only the interrupt ends the  *)
(* process.                                                                *)
(***************************************************************************)
C8_NeverExitsZero ==
    pc = "exited" =>
        /\ exit.code # 0
        /\ exit.cause \in {"KeyboardInterrupt", "OSError"}
        /\ exit.cause = "OSError" => exit.at = "bind"
        /\ exit.at \in {"print", "serve"} => exit.cause = "KeyboardInterrupt"

C8_Witness ==
    /\ pc = "exited"
    /\ exit.cause = "KeyboardInterrupt"
    /\ exit.at = "serve"
    /\ exit.code = 130

(***************************************************************************)
(* C9: handling a request changes neither the filesystem nor the MIME      *)
(* mapping, and a request with a method other than GET or HEAD is answered *)
(* with an error status and opens no file.                                 *)
(***************************************************************************)
C9_HandlingIsReadOnly ==
    /\ [](\A c \in Conns :
            ( /\ Responded(c)
              /\ hd[c].requestline.command \in Commands \ {"GET", "HEAD"} )
            => ( /\ hd[c].code \in {400, 501}
                 /\ hd[c].opened = <<>>
                 /\ hd[c].body = "error-page" ))
    /\ [][ (\E c \in Conns : st[c] = "reading" /\ st'[c] = "responded")
              => ( /\ fs' = fs
                   /\ extensions_map' = extensions_map
                   /\ types_map' = types_map
                   /\ pc' = pc ) ]_vars

C9_Witness ==
    \E c \in Conns :
        /\ Responded(c)
        /\ hd[c].command = "POST"
        /\ hd[c].wire_status = 501
        /\ hd[c].opened = <<>>

(***************************************************************************)
(* C10: at most one connection is being handled at any moment, connections *)
(* are taken in the order of the accept queue, and while one handler waits *)
(* for its request no other connection gets past the queue.                *)
(***************************************************************************)
C10_OneAtATime ==
    /\ [](Cardinality(Active) <= 1)
    /\ [][ \A c \in Conns :
             /\ (st[c] = "queued" /\ st'[c] = "reading")
                   => (c = Head(backlog) /\ Active = {})
             /\ (st[c] = "reading" /\ st'[c] = "reading")
                   => \A d \in Conns \ {c} :
                         st'[d] = st[d] \/ (st[d] = "none" /\ st'[d] = "queued")
         ]_vars

C10_Witness ==
    \E c, d \in Conns :
        /\ st[c] = "reading"
        /\ st[d] = "queued"
        /\ pc = "serve"

====
